---------------------------- MODULE Spec2Model ----------------------------
(* The task API of todo-app/backend/server.js over the `todos` table: one  *)
(* action per request handler, each handler together with the single      *)
(* statement it sends to the store, which runs the statements one at a    *)
(* time; the server's start; and one page of                             *)
(* todo-app/frontend/script.js with the requests it has under way.        *)
EXTENDS Integers, Sequences, FiniteSets, TLC

(***************************************************************************)
(* Bounds of the model.                                                    *)
(***************************************************************************)
\* At most MaxId rows are ever inserted (AUTO_INCREMENT runs 1..MaxId).
MaxId == 3
\* The store's clock, in seconds (the resolution of DATETIME), runs 0..MaxClock.
MaxClock == 1
\* At most MaxHandled requests are handled.
MaxHandled == 4
\* the events of the user one page handles
MaxEvents == 3
\* the events and the requests handled in one run of a page
MaxSteps == 6

(***************************************************************************)
(* Program constants.                                                      *)
(***************************************************************************)
\* task VARCHAR(255)
VarcharLen == 255

(***************************************************************************)
(* Values of a JSON request body.  A text is a run of n copies of one      *)
(* character ch, which keeps its length and whether it is whitespace.      *)
(***************************************************************************)
Text(ch, n) == [ch |-> ch, n |-> n]
EmptyText == Text(" ", 0)
NoText == Text("-", 0)

\* What a field of req.body can hold: absent, JSON null, or a string.
Undefined(v) == [kind |-> "undefined", v |-> v]
Null(v) == [kind |-> "null", v |-> v]
Str(v) == [kind |-> "string", v |-> v]

\* The texts a request may carry in `task`.
LongText == Text("x", VarcharLen + 1)
BodyTexts == {EmptyText, Text(" ", 1), Text("a", 1), LongText}
BodyTasks == {Undefined(NoText)} \cup {Str(t) : t \in BodyTexts}
\* The values a request may carry in `status`.
BodyStatuses ==
    {Undefined(""), Null("")} \cup {Str(s) : s \in {"active", "completed", "bogus"}}
Bodies == [task : BodyTasks, status : BodyStatuses]

\* Empty or whitespace only.
IsBlank(t) == t.n = 0 \/ t.ch = " "

(***************************************************************************)
(* The store: table todos (server.js:43-48).                               *)
(***************************************************************************)
\* SQL NULL in column status, which the ENUM column admits (no NOT NULL).
SqlNull == "NULL"
StatusEnum == {"active", "completed"}

Ids == 1..MaxId
Times == 0..MaxClock

VARIABLES
    todos,      \* the rows of table todos
    nextId,     \* the table's AUTO_INCREMENT counter
    clock,      \* the store's CURRENT_TIMESTAMP, in seconds
    sqlStrict,  \* whether the server's sql_mode is strict
    req,        \* the request handled last
    res,        \* the response sent last
    assigned,   \* every insertId handed out so far
    creates,    \* number of create requests answered with success
    deletes,    \* number of delete requests that removed a row
    handled,    \* number of requests handled so far
    query,      \* the statement the last handler sent to the store, or "none"
    session     \* the client's run of clicks on one status button

\* The server's start (server.js:23-59 and 175-178).
VARIABLES
    conn,       \* the connection db: "connecting", "connected" or "failed"
    listening,  \* whether app.listen has bound the port
    cmds,       \* the commands queued on the connection, in the order they run
    dbReady,    \* whether initSql has run (database selected, table there)
    log         \* the lines written to the console

bootVars == <<conn, listening, cmds, dbReady, log>>

\* One page of the client (frontend/script.js) and its requests under way.
VARIABLES
    rendered,        \* the tasks shown in #todo-list, in their order
    todoIdToDelete,  \* the id the delete modal asks about, 0 for null
    modalOpen,       \* whether the delete modal is shown
    edit,            \* the input that replaces the text of the row being edited
    inflight,        \* the requests sent with fetch that the server has not handled
    replies,         \* the responses on their way to the page
    nextReq,         \* the number of requests the page has sent
    events           \* the number of events of the user the page has handled

clientVars ==
    <<rendered, todoIdToDelete, modalOpen, edit, inflight, replies, nextReq,
      events>>

storeVars ==
    <<todos, nextId, clock, sqlStrict, req, res, assigned, creates, deletes, handled,
      query>>

vars == <<storeVars, session, bootVars, clientVars>>

HasRow(rows, id) == \E r \in rows : r.id = id
RowOf(rows, id) == CHOOSE r \in rows : r.id = id

\* How column `task VARCHAR(255) NOT NULL` stores a string v assigned to it: a
\* strict sql_mode refuses an over-long string, any other mode cuts it to the
\* column's length.
ColTask(v, strict) ==
    IF v.v.n > VarcharLen
    THEN IF strict THEN [ok |-> FALSE, val |-> NoText]
                   ELSE [ok |-> TRUE, val |-> Text(v.v.ch, VarcharLen)]
    ELSE [ok |-> TRUE, val |-> v.v]

\* How column `status ENUM('active', 'completed')` stores a value v assigned to
\* it: NULL is admitted, a string that is no member is refused by a strict
\* sql_mode and stored as the error member '' by any other.
ColStatus(v, strict) ==
    IF v.kind = "null"
    THEN [ok |-> TRUE, val |-> SqlNull]
    ELSE IF v.v \in StatusEnum
         THEN [ok |-> TRUE, val |-> v.v]
         ELSE IF strict THEN [ok |-> FALSE, val |-> ""]
                        ELSE [ok |-> TRUE, val |-> ""]

(***************************************************************************)
(* Responses.                                                              *)
(***************************************************************************)
Response(code, message, changes, data) ==
    [code |-> code, message |-> message, changes |-> changes, data |-> data]
ErrorResponse(error) == Response(400, error, 0, <<>>)
\* What is kept of a request: its verb, its :id and the columns it sets.
Request(op, id, fields) == [op |-> op, id |-> id, fields |-> fields]

\* !task of JavaScript: undefined, null and "" are falsy.
Falsy(v) == v.kind \in {"undefined", "null"} \/ v.v.n = 0

\* No row, and no run of clicks yet.
NoRow == [id |-> 0, task |-> NoText, status |-> "", created_at |-> 0]
NoSession == [id |-> 0, before |-> NoRow, clicks |-> 0]

\* The server after its start: connected, storage initialized, listening.
Started ==
    /\ conn = "connected"
    /\ listening = TRUE
    /\ cmds = <<>>
    /\ dbReady = TRUE
    /\ log = {"Connected to MySQL server.", "Database and table initialized."}

\* No page: nothing rendered, nothing under way.
NoEdit == [id |-> 0, value |-> NoText, focus |-> FALSE, escaped |-> FALSE]
NoClient ==
    /\ rendered = <<>>
    /\ todoIdToDelete = 0
    /\ modalOpen = FALSE
    /\ edit = NoEdit
    /\ inflight = {}
    /\ replies = {}
    /\ nextReq = 0
    /\ events = 0

\* One more request is taken up.
Handle == handled < MaxHandled /\ handled' = handled + 1

Init ==
    /\ todos = {}
    /\ nextId = 1
    /\ clock = 0
    /\ sqlStrict \in BOOLEAN
    /\ req = Request("none", 0, <<>>)
    /\ res = Response(0, "", 0, <<>>)
    /\ assigned = {}
    /\ creates = 0
    /\ deletes = 0
    /\ handled = 0
    /\ query = "none"
    /\ session = NoSession
    /\ Started
    /\ NoClient

(***************************************************************************)
(* POST /todos                                                             *)
(***************************************************************************)
\* A table that numbers a new row one past the largest id it holds.
AutoIncrementFromRows(rows, counter) ==
    IF rows = {} THEN 1
    ELSE 1 + (CHOOSE m \in {r.id : r \in rows} : \A r \in rows : r.id <= m)

\* id INT AUTO_INCREMENT PRIMARY KEY: the id of the next row is the table's
\* counter, whatever rows the table holds.
AutoIncrement(rows, counter) == counter

\* INSERT INTO todos (task) VALUES (?): the row stored at time now, with the
\* columns the statement leaves out at their defaults.
InsertedRow(id, val, now) ==
    [id |-> id, task |-> val, status |-> "active", created_at |-> now]

PostRejects(task) == Falsy(task)

Post(body) ==
    /\ Handle
    /\ req' = Request("POST", 0, <<>>)
    /\ query' = IF PostRejects(body.task) THEN "none" ELSE "INSERT"
    /\ IF PostRejects(body.task)
       THEN /\ res' = ErrorResponse("Task content is required")
            /\ UNCHANGED <<todos, nextId, clock, assigned, creates>>
       ELSE LET col == ColTask(body.task, sqlStrict) IN
            IF ~col.ok
            THEN /\ res' = ErrorResponse("Data too long for column 'task'")
                 /\ UNCHANGED <<todos, nextId, clock, assigned, creates>>
            ELSE LET insertId == AutoIncrement(todos, nextId) IN
                 /\ nextId <= MaxId
                 /\ \E now \in Times :
                      /\ now \in {clock, clock + 1}
                      /\ clock' = now
                      /\ todos' = todos \cup {InsertedRow(insertId, col.val, now)}
                      /\ res' = Response(200, "success", 0,
                                  <<[id |-> insertId, task |-> body.task.v,
                                     status |-> "active", created_at |-> now]>>)
                 /\ nextId' = nextId + 1
                 /\ assigned' = assigned \cup {insertId}
                 /\ creates' = creates + 1
    /\ UNCHANGED <<sqlStrict, deletes>>

(***************************************************************************)
(* PUT /todos/:id                                                          *)
(***************************************************************************)
\* The columns the handler puts in the SET clause.
Fields(body) ==
    (IF body.task.kind # "undefined" THEN <<"task">> ELSE <<>>)
    \o (IF body.status.kind # "undefined" THEN <<"status">> ELSE <<>>)

HasField(body, f) == \E i \in 1..Len(Fields(body)) : Fields(body)[i] = f

\* An UPDATE that writes both columns, a column the request leaves out at its
\* default.
UpdatedRowAllColumns(r, body, strict) ==
    LET t == IF body.task.kind # "undefined" THEN ColTask(body.task, strict)
             ELSE [ok |-> TRUE, val |-> r.task]
        s == IF body.status.kind # "undefined" THEN ColStatus(body.status, strict)
             ELSE [ok |-> TRUE, val |-> "active"]
    IN  [ok |-> t.ok /\ s.ok,
         error |-> IF ~t.ok THEN "Data too long for column 'task'"
                   ELSE "Data truncated for column 'status'",
         row |-> [r EXCEPT !.task = t.val, !.status = s.val]]

\* UPDATE todos SET <fields> WHERE id = ?, on the row r it matches.
UpdatedRow(r, body, strict) ==
    LET t == IF HasField(body, "task") THEN ColTask(body.task, strict)
             ELSE [ok |-> TRUE, val |-> r.task]
        s == IF HasField(body, "status") THEN ColStatus(body.status, strict)
             ELSE [ok |-> TRUE, val |-> r.status]
    IN  [ok |-> t.ok /\ s.ok,
         error |-> IF ~t.ok THEN "Data too long for column 'task'"
                   ELSE "Data truncated for column 'status'",
         row |-> [r EXCEPT !.task = t.val, !.status = s.val]]

\* A handler that sends its UPDATE whatever the body holds.
PutRejectsNothing(body) == FALSE

\* fields.length === 0: the body names no column to set.
PutRejects(body) == Len(Fields(body)) = 0

\* results.changedRows: the rows whose stored values the UPDATE changed.
ChangedRows(old, new) == IF new # old THEN 1 ELSE 0

Put(id, body) ==
    /\ Handle
    /\ req' = Request("PUT", id, Fields(body))
    /\ query' = IF PutRejects(body) THEN "none" ELSE "UPDATE"
    /\ IF PutRejects(body)
       THEN /\ res' = ErrorResponse("No fields to update")
            /\ UNCHANGED todos
       ELSE IF ~HasRow(todos, id)
       THEN /\ res' = Response(200, "success", 0, <<>>)
            /\ UNCHANGED todos
       ELSE LET r == RowOf(todos, id)
                u == UpdatedRow(r, body, sqlStrict)
            IN  IF ~u.ok
                THEN /\ res' = ErrorResponse(u.error)
                     /\ UNCHANGED todos
                ELSE /\ todos' = (todos \ {r}) \cup {u.row}
                     /\ res' = Response(200, "success", ChangedRows(r, u.row), <<>>)
    /\ UNCHANGED <<nextId, clock, sqlStrict, assigned, creates, deletes>>

(***************************************************************************)
(* DELETE /todos/:id                                                       *)
(***************************************************************************)
\* A DELETE whose WHERE clause matches every row up to the id.
RemainingRowsAbove(rows, id) == {r \in rows : r.id > id}

\* DELETE FROM todos WHERE id = ?: the rows that stay.
RemainingRows(rows, id) == {r \in rows : r.id # id}

Delete(id) ==
    LET affectedRows == Cardinality(todos \ RemainingRows(todos, id)) IN
    /\ Handle
    /\ req' = Request("DELETE", id, <<>>)
    /\ query' = "DELETE"
    /\ todos' = RemainingRows(todos, id)
    /\ res' = Response(200, "deleted", affectedRows, <<>>)
    /\ deletes' = deletes + affectedRows
    /\ UNCHANGED <<nextId, clock, sqlStrict, assigned, creates>>

(***************************************************************************)
(* GET /todos                                                              *)
(***************************************************************************)
\* ORDER BY created_at ASC on a result sequence.
OrderedByCreatedAtAsc(seq) ==
    \A i, j \in 1..Len(seq) : i < j => seq[i].created_at <= seq[j].created_at

\* ORDER BY created_at DESC on a result sequence.
OrderedByCreatedAtDesc(seq) ==
    \A i, j \in 1..Len(seq) : i < j => seq[i].created_at >= seq[j].created_at

\* The sequences that hold every row of `rows` once.
Arrangements(rows) ==
    {seq \in [1..Cardinality(rows) -> rows] :
        \A i, j \in 1..Cardinality(rows) : i # j => seq[i] # seq[j]}

\* A SELECT that leaves out the completed rows.
SelectActiveResults(rows) ==
    {seq \in Arrangements({r \in rows : r.status # "completed"}) :
        OrderedByCreatedAtDesc(seq)}

\* SELECT * FROM todos ORDER BY created_at DESC: the store may answer with any
\* arrangement of the rows that respects the ORDER BY.
SelectResults(rows) == {seq \in Arrangements(rows) : OrderedByCreatedAtDesc(seq)}

Get ==
    /\ Handle
    /\ req' = Request("GET", 0, <<>>)
    /\ query' = "SELECT"
    /\ \E results \in SelectResults(todos) :
          res' = Response(200, "success", 0, results)
    /\ UNCHANGED <<todos, nextId, clock, sqlStrict, assigned, creates, deletes>>

\* Requests of any client, with any body, to the started server.
Next ==
    \/ \E task \in BodyTasks :
          /\ Post([task |-> task, status |-> Undefined("")])
          /\ UNCHANGED <<session, bootVars, clientVars>>
    \/ \E id \in Ids, body \in Bodies :
          Put(id, body) /\ UNCHANGED <<session, bootVars, clientVars>>
    \/ \E id \in Ids : Delete(id) /\ UNCHANGED <<session, bootVars, clientVars>>
    \/ Get /\ UNCHANGED <<session, bootVars, clientVars>>

Spec == Init /\ [][Next]_vars

(***************************************************************************)
(* The client's status button (frontend/script.js).                        *)
(***************************************************************************)
\* A toggle that compares with a status the store never holds.
ToggleStatusMisspelt(currentStatus) ==
    IF currentStatus = "Active" THEN "completed" ELSE "active"

\* newStatus of toggleStatus(id, currentStatus).
ToggleStatus(currentStatus) ==
    IF currentStatus = "active" THEN "completed" ELSE "active"

\* The body updateTodoStatus(id, status) sends: JSON.stringify({ status }).
StatusBody(status) == [task |-> Undefined(NoText), status |-> Str(status)]

\* A click on the status button of row id, which carries the status the row
\* was rendered with; the list is rendered anew after every update, so that is
\* the row's status.  session counts the clicks in a row on one button and
\* keeps the row as it was before the first of them.
ToggleClick(id) ==
    /\ HasRow(todos, id)
    /\ Put(id, StatusBody(ToggleStatus(RowOf(todos, id).status)))
    /\ session' = IF session.id = id
                  THEN [session EXCEPT !.clicks = @ + 1]
                  ELSE [id |-> id, before |-> RowOf(todos, id), clicks |-> 1]

\* The texts and the statuses a stored row can have when the clicks begin.
StoredTexts == {Text("a", 1), Text(" ", 1)}
StoredStatuses == StatusEnum \cup {SqlNull}

\* The tables the requests can have left, of one row or two: ids out of Ids,
\* no id twice, created_at growing with the id.
StoredTables ==
    {{[id |-> i, task |-> f[i].task, status |-> f[i].status,
       created_at |-> f[i].created_at] : i \in DOMAIN f} :
        f \in UNION {[ids -> [task : StoredTexts, status : StoredStatuses,
                               created_at : Times]] :
                        ids \in {{i, j} : i, j \in Ids}}}

InitToggle ==
    /\ todos \in StoredTables
    /\ \A r, q \in todos : r.id < q.id => r.created_at <= q.created_at
    /\ nextId = MaxId + 1
    /\ clock = MaxClock
    /\ sqlStrict \in BOOLEAN
    /\ req = Request("none", 0, <<>>)
    /\ res = Response(0, "", 0, <<>>)
    /\ assigned = Ids
    /\ creates = MaxId
    /\ deletes = MaxId - Cardinality(todos)
    /\ handled = 0
    /\ query = "none"
    /\ session = NoSession
    /\ Started
    /\ NoClient

NextToggle ==
    \E id \in Ids : ToggleClick(id) /\ UNCHANGED <<bootVars, clientVars>>

\* One client clicking status buttons, no other request in between.
SpecToggle == InitToggle /\ [][NextToggle]_vars

(***************************************************************************)
(* The server's start: createConnection and db.connect (server.js:23-59),  *)
(* app.listen (server.js:175-178), and requests that arrive meanwhile.     *)
(* The connection runs its commands one at a time in the order they were   *)
(* queued, the handshake first.                                            *)
(***************************************************************************)
EmptyBody == [task |-> Undefined(NoText), status |-> Undefined("")]
Command(op, id, body) == [op |-> op, id |-> id, body |-> body]
\* db.query(initSql)
InitCommand == Command("INIT", 0, EmptyBody)

\* The requests that may arrive while the server starts.
BootRequests ==
    {Command("GET", 0, EmptyBody),
     Command("POST", 0, [task |-> Str(Text("a", 1)), status |-> Undefined("")]),
     Command("POST", 0, [task |-> Str(EmptyText), status |-> Undefined("")]),
     Command("PUT", 1, [task |-> Undefined(NoText), status |-> Str("completed")]),
     Command("PUT", 1, EmptyBody),
     Command("DELETE", 1, EmptyBody)}

\* The statement a handler sends for a request, "none" when it answers by
\* itself.
StatementOf(r) ==
    IF r.op = "POST" THEN (IF PostRejects(r.body.task) THEN "none" ELSE "INSERT")
    ELSE IF r.op = "PUT" THEN (IF PutRejects(r.body) THEN "none" ELSE "UPDATE")
    ELSE IF r.op = "DELETE" THEN "DELETE"
    ELSE "SELECT"

\* The handler of request r with its statement run by the store.
Serve(r) ==
    IF r.op = "POST" THEN Post(r.body)
    ELSE IF r.op = "PUT" THEN Put(r.id, r.body)
    ELSE IF r.op = "DELETE" THEN Delete(r.id)
    ELSE Get

\* The handler's callback when the store hands it an error: 400 with the
\* error's message.
ServeError(r, error) ==
    /\ Handle
    /\ req' = Request(r.op, r.id, Fields(r.body))
    /\ query' = StatementOf(r)
    /\ res' = ErrorResponse(error)
    /\ UNCHANGED <<todos, nextId, clock, sqlStrict, assigned, creates, deletes>>

InitBoot ==
    /\ todos = {}
    /\ nextId = 1
    /\ clock = 0
    /\ sqlStrict \in BOOLEAN
    /\ req = Request("none", 0, <<>>)
    /\ res = Response(0, "", 0, <<>>)
    /\ assigned = {}
    /\ creates = 0
    /\ deletes = 0
    /\ handled = 0
    /\ query = "none"
    /\ session = NoSession
    /\ conn = "connecting"
    /\ listening = FALSE
    /\ cmds = <<>>
    /\ dbReady = FALSE
    /\ log = {}
    /\ NoClient

\* app.listen(PORT, ...): it waits for no callback of the connection.
Listen ==
    /\ ~listening
    /\ listening' = TRUE
    /\ log' = log \cup {"Server running on port 3000"}
    /\ UNCHANGED <<conn, cmds, dbReady>>
    /\ UNCHANGED <<todos, nextId, clock, sqlStrict, req, res, assigned, creates,
                   deletes, handled, query, session, clientVars>>

\* The handshake succeeds: the callback of db.connect logs and queues initSql.
ConnectOk ==
    /\ conn = "connecting"
    /\ conn' = "connected"
    /\ log' = log \cup {"Connected to MySQL server."}
    /\ cmds' = Append(cmds, InitCommand)
    /\ UNCHANGED <<listening, dbReady>>
    /\ UNCHANGED <<todos, nextId, clock, sqlStrict, req, res, assigned, creates,
                   deletes, handled, query, session, clientVars>>

\* The handshake fails: the callback of db.connect logs the error and returns.
ConnectFail ==
    /\ conn = "connecting"
    /\ conn' = "failed"
    /\ log' = log \cup {"Error connecting to MySQL server"}
    /\ UNCHANGED <<listening, cmds, dbReady>>
    /\ UNCHANGED <<todos, nextId, clock, sqlStrict, req, res, assigned, creates,
                   deletes, handled, query, session, clientVars>>

\* A request arrives at the listening server.  A handler that sends no
\* statement answers at once; any other queues its statement with db.query.
Arrive(r) ==
    /\ listening
    /\ IF StatementOf(r) = "none"
       THEN Serve(r) /\ UNCHANGED bootVars
       ELSE /\ Len(cmds) + handled < MaxHandled
            /\ cmds' = Append(cmds, r)
            /\ UNCHANGED <<conn, listening, dbReady, log>>
            /\ UNCHANGED <<todos, nextId, clock, sqlStrict, req, res, assigned,
                           creates, deletes, handled, query>>
    /\ UNCHANGED <<session, clientVars>>

\* The connection runs the command at the head of its queue and calls the
\* command's callback.  A failed connection hands every command an error; a
\* statement that runs before initSql finds no database selected.
RunCommand ==
    /\ conn # "connecting"
    /\ cmds # <<>>
    /\ cmds' = Tail(cmds)
    /\ LET c == Head(cmds) IN
       IF c.op = "INIT"
       THEN /\ dbReady' = TRUE
            /\ log' = log \cup {"Database and table initialized."}
            /\ UNCHANGED <<todos, nextId, clock, sqlStrict, req, res, assigned,
                           creates, deletes, handled, query>>
       ELSE /\ IF conn = "failed"
               THEN ServeError(c, "Can't add new command when connection is in closed state")
               ELSE IF ~dbReady
               THEN ServeError(c, "No database selected")
               ELSE Serve(c)
            /\ UNCHANGED <<dbReady, log>>
    /\ UNCHANGED <<conn, listening, session, clientVars>>

NextBoot ==
    \/ Listen
    \/ ConnectOk
    \/ ConnectFail
    \/ \E r \in BootRequests : Arrive(r)
    \/ RunCommand

SpecBoot == InitBoot /\ [][NextBoot]_vars

(***************************************************************************)
(* One page of the client (frontend/script.js): the rendered list, the     *)
(* delete modal, the inline edit, and the requests it sends with fetch.    *)
(* A request is under way from fetch until the server handles it, its      *)
(* response from then until the awaiting function resumes; requests are    *)
(* handled, and responses arrive, in any order.                            *)
(***************************************************************************)
Fetch(n, kind, id, text, status) ==
    [n |-> n, kind |-> kind, id |-> id, text |-> text, status |-> status]
\* fetch(API_URL) of fetchTodos
FetchTodos(n) == Fetch(n, "list", 0, NoText, "")
ReplyTo(m, ok, data) == [n |-> m.n, kind |-> m.kind, ok |-> ok, data |-> data]

\* The request the server receives for m.
CommandOf(m) ==
    IF m.kind = "list" THEN Command("GET", 0, EmptyBody)
    ELSE IF m.kind = "create" THEN Command("POST", 0, [task |-> Str(m.text), status |-> Undefined("")])
    ELSE IF m.kind = "status" THEN Command("PUT", m.id, StatusBody(m.status))
    ELSE IF m.kind = "text" THEN Command("PUT", m.id, [task |-> Str(m.text), status |-> Undefined("")])
    ELSE Command("DELETE", m.id, EmptyBody)

\* String.prototype.trim
Trim(t) == IF t.ch = " " THEN EmptyText ELSE t

\* What the user types into the new-task input and into the edit input.
AddTexts == {Text(" ", 1), Text("a", 1), LongText}
EditTexts == {Text(" ", 1), Text("b", 1)}

\* fetch sends one more request.
Send(m) ==
    /\ inflight' = inflight \cup {m}
    /\ nextReq' = nextReq + 1

\* The page handles one more event of the user.
UserEvent ==
    /\ events < MaxEvents
    /\ events + handled < MaxSteps
    /\ events' = events + 1

\* The page as loaded: the script has run to its last line, fetchTodos(), and
\* the table holds one task of an earlier visit.
InitClient ==
    /\ todos = {InsertedRow(1, Text("a", 1), 0)}
    /\ nextId = 2
    /\ clock = 0
    /\ sqlStrict \in BOOLEAN
    /\ req = Request("none", 0, <<>>)
    /\ res = Response(0, "", 0, <<>>)
    /\ assigned = {1}
    /\ creates = 1
    /\ deletes = 0
    /\ handled = 0
    /\ query = "none"
    /\ session = NoSession
    /\ Started
    /\ rendered = <<>>
    /\ todoIdToDelete = 0
    /\ modalOpen = FALSE
    /\ edit = NoEdit
    /\ inflight = {FetchTodos(0)}
    /\ replies = {}
    /\ nextReq = 1
    /\ events = 0

\* The user can click on the page: the modal does not cover it, and a click
\* outside a focused edit input is a blur of that input first.
PageAtHand == ~modalOpen /\ ~edit.focus

\* A click on the status button of the k-th rendered task: toggleStatus with
\* the id and the status the task was rendered with.
ClickStatus(k) ==
    /\ UserEvent
    /\ k \in 1..Len(rendered)
    /\ PageAtHand
    /\ LET todo == rendered[k] IN
         /\ Send(Fetch(nextReq, "status", todo.id, NoText, ToggleStatus(todo.status)))
    /\ UNCHANGED <<rendered, todoIdToDelete, modalOpen, edit, replies>>
    /\ UNCHANGED <<storeVars, session, bootVars>>

\* A click on the delete button of the k-th rendered task: deleteTodo, that
\* is showDeleteModal.
ClickDelete(k) ==
    /\ UserEvent
    /\ k \in 1..Len(rendered)
    /\ PageAtHand
    /\ LET todo == rendered[k] IN
         /\ todoIdToDelete' = todo.id
         /\ modalOpen' = TRUE
    /\ UNCHANGED <<rendered, edit, inflight, replies, nextReq>>
    /\ UNCHANGED <<storeVars, session, bootVars>>

ConfirmSendsAlways(idToDelete) == TRUE

\* if (todoIdToDelete)
ConfirmSends(idToDelete) == idToDelete # 0

\* A click on the confirm button: the DELETE is sent at once, the modal is
\* hidden when the response has come.
ClickConfirm ==
    /\ UserEvent
    /\ IF ConfirmSends(todoIdToDelete)
       THEN Send(Fetch(nextReq, "delete", todoIdToDelete, NoText, ""))
       ELSE UNCHANGED <<inflight, nextReq>>
    /\ UNCHANGED <<rendered, todoIdToDelete, modalOpen, edit, replies>>
    /\ UNCHANGED <<storeVars, session, bootVars>>

hideDeleteModal ==
    /\ todoIdToDelete' = 0
    /\ modalOpen' = FALSE

\* A click on the cancel button.
ClickCancel ==
    /\ UserEvent
    /\ modalOpen
    /\ hideDeleteModal
    /\ UNCHANGED <<rendered, edit, inflight, replies, nextReq>>
    /\ UNCHANGED <<storeVars, session, bootVars>>

\* A click on the modal outside its box.
ClickOutside ==
    /\ UserEvent
    /\ modalOpen
    /\ hideDeleteModal
    /\ UNCHANGED <<rendered, edit, inflight, replies, nextReq>>
    /\ UNCHANGED <<storeVars, session, bootVars>>

\* A click on the edit button or the text of the k-th rendered task, while
\* no row is being edited: enableEdit puts a focused input with the rendered
\* text in place of the row.
ClickEdit(k) ==
    /\ UserEvent
    /\ k \in 1..Len(rendered)
    /\ edit = NoEdit
    /\ PageAtHand
    /\ LET todo == rendered[k] IN
         /\ edit' = [id |-> todo.id, value |-> todo.task, focus |-> TRUE,
                     escaped |-> FALSE]
    /\ UNCHANGED <<rendered, todoIdToDelete, modalOpen, inflight, replies, nextReq>>
    /\ UNCHANGED <<storeVars, session, bootVars>>

\* The user types into the focused edit input.
Type(v) ==
    /\ UserEvent
    /\ edit.focus
    /\ v # edit.value
    /\ edit' = [edit EXCEPT !.value = v]
    /\ UNCHANGED <<rendered, todoIdToDelete, modalOpen, inflight, replies, nextReq>>
    /\ UNCHANGED <<storeVars, session, bootVars>>

UpdateTodoSkipsEmptyOnly(newTask) == newTask.n = 0

\* if (!newTask.trim())
UpdateTodoSkips(newTask) == Trim(newTask).n = 0

\* The request updateTodo(id, newTask) sends first: the list when the text is
\* blank, the update otherwise.
UpdateTodo(n, id, newTask) ==
    IF UpdateTodoSkips(newTask) THEN FetchTodos(n)
    ELSE Fetch(n, "text", id, newTask, "")

\* Enter in the edit input.
PressEnter ==
    /\ UserEvent
    /\ edit.focus
    /\ Send(UpdateTodo(nextReq, edit.id, edit.value))
    /\ UNCHANGED <<rendered, todoIdToDelete, modalOpen, edit, replies>>
    /\ UNCHANGED <<storeVars, session, bootVars>>

\* Escape in the edit input: fetchTodos(); the input stays until the list
\* is rendered anew.
PressEscape ==
    /\ UserEvent
    /\ edit.focus
    /\ Send(FetchTodos(nextReq))
    /\ edit' = [edit EXCEPT !.escaped = TRUE]
    /\ UNCHANGED <<rendered, todoIdToDelete, modalOpen, replies>>
    /\ UNCHANGED <<storeVars, session, bootVars>>

\* The edit input loses the focus because the user clicks elsewhere.
Blur ==
    /\ UserEvent
    /\ edit.focus
    /\ Send(UpdateTodo(nextReq, edit.id, edit.value))
    /\ edit' = [edit EXCEPT !.focus = FALSE]
    /\ UNCHANGED <<rendered, todoIdToDelete, modalOpen, replies>>
    /\ UNCHANGED <<storeVars, session, bootVars>>

\* The add button or Enter in the new-task input holding v.
AddTodo(v) ==
    /\ UserEvent
    /\ PageAtHand
    /\ IF Trim(v).n = 0
       THEN UNCHANGED <<inflight, nextReq>>
       ELSE Send(Fetch(nextReq, "create", 0, Trim(v), ""))
    /\ UNCHANGED <<rendered, todoIdToDelete, modalOpen, edit, replies>>
    /\ UNCHANGED <<storeVars, session, bootVars>>

\* The server handles request m and answers it.
Answer(m) ==
    /\ m \in inflight
    /\ events + handled < MaxSteps
    /\ Serve(CommandOf(m))
    /\ inflight' = inflight \ {m}
    /\ replies' = replies \cup
                    {ReplyTo(m, res'.code = 200,
                             IF m.kind = "list" THEN res'.data ELSE <<>>)}
    /\ UNCHANGED <<rendered, todoIdToDelete, modalOpen, edit, nextReq, events>>
    /\ UNCHANGED <<session, bootVars>>

RefetchesAfterCreateOnly(p) == p.kind = "create" /\ p.ok

\* Whether the function that awaited response p goes on to fetchTodos():
\* addTodo only if (response.ok), the others always.
Refetches(p) == p.kind # "create" \/ p.ok

\* Response p arrives and the function that awaited it resumes.  A list is
\* rendered in place of the old one, which removes the edit input; removing a
\* focused input fires its blur handler in some browsers and not in others.
Deliver(p) ==
    /\ p \in replies
    /\ replies' = replies \ {p}
    /\ IF p.kind = "list"
       THEN /\ rendered' = p.data
            /\ edit' = NoEdit
            /\ \E fires \in BOOLEAN :
                 IF fires /\ edit.focus
                 THEN Send(UpdateTodo(nextReq, edit.id, edit.value))
                 ELSE UNCHANGED <<inflight, nextReq>>
            /\ UNCHANGED <<todoIdToDelete, modalOpen>>
       ELSE /\ IF Refetches(p)
               THEN Send(FetchTodos(nextReq))
               ELSE UNCHANGED <<inflight, nextReq>>
            /\ IF p.kind = "delete"
               THEN hideDeleteModal
               ELSE UNCHANGED <<todoIdToDelete, modalOpen>>
            /\ UNCHANGED <<rendered, edit>>
    /\ UNCHANGED <<events, storeVars, session, bootVars>>

NextClient ==
    \/ \E k \in Ids : ClickStatus(k)
    \/ \E k \in Ids : ClickDelete(k)
    \/ ClickConfirm
    \/ ClickCancel
    \/ ClickOutside
    \/ \E k \in Ids : ClickEdit(k)
    \/ \E v \in EditTexts : Type(v)
    \/ PressEnter
    \/ PressEscape
    \/ Blur
    \/ \E v \in AddTexts : AddTodo(v)
    \/ \E m \in inflight : Answer(m)
    \/ \E p \in replies : Deliver(p)

\* One page and the server, no other client.
SpecClient == InitClient /\ [][NextClient]_vars

(***************************************************************************)
(* Two clients update the same row at the same time (server.js:119-154):   *)
(* both requests are under way, and the server's one connection runs their *)
(* statements one after the other, in either order.                        *)
(***************************************************************************)
WriterTexts == {Text("b", 1), Text("c", 1)}

\* The update requests a client can send for row id: a text or a status.
Writes(n, id) ==
    {Fetch(n, "text", id, t, "") : t \in WriterTexts}
        \cup {Fetch(n, "status", id, NoText, st) : st \in StatusEnum}

InitWriters ==
    /\ \E st \in StatusEnum :
         todos = {[InsertedRow(1, Text("a", 1), 0) EXCEPT !.status = st]}
    /\ nextId = 2
    /\ clock = 0
    /\ sqlStrict \in BOOLEAN
    /\ req = Request("none", 0, <<>>)
    /\ res = Response(0, "", 0, <<>>)
    /\ assigned = {1}
    /\ creates = 1
    /\ deletes = 0
    /\ handled = 0
    /\ query = "none"
    /\ session = NoSession
    /\ Started
    /\ rendered = <<>>
    /\ todoIdToDelete = 0
    /\ modalOpen = FALSE
    /\ edit = NoEdit
    /\ inflight \in {{a, b} : a \in Writes(0, 1), b \in Writes(1, 1)}
    /\ replies = {}
    /\ nextReq = 2
    /\ events = 0

NextWriters == \E m \in inflight : Answer(m)

SpecWriters == InitWriters /\ [][NextWriters]_vars

(***************************************************************************)
(* Request bodies the properties speak of.                                 *)
(***************************************************************************)
TaskOnly(t) == [task |-> Str(t), status |-> Undefined("")]
IdsOf(rows) == {r.id : r \in rows}

(***************************************************************************)
(* C1: every create request whose text is empty or whitespace only is      *)
(* answered with HTTP 400 and leaves the table as it was.                  *)
(***************************************************************************)
C1_BlankCreateRejected ==
    [][\A t \in BodyTexts :
          (IsBlank(t) /\ Post(TaskOnly(t))) => (res'.code = 400 /\ todos' = todos)]_vars

(***************************************************************************)
(* C2: in every reachable state every row has a non-empty task text.       *)
(***************************************************************************)
C2_TaskNeverEmpty == \A r \in todos : r.task.n > 0

(***************************************************************************)
(* C3: in every reachable state the status of every row is active or       *)
(* completed.                                                              *)
(***************************************************************************)
C3_StatusInEnum == \A r \in todos : r.status \in StatusEnum

(***************************************************************************)
(* C4: a create request with non-empty text adds exactly one row, with     *)
(* status active and an id that no row has and that was never assigned     *)
(* before, so that no two rows share an id.                                *)
(***************************************************************************)
AddsOneFreshActiveRow ==
    /\ \E r \in todos' :
          /\ r \notin todos
          /\ todos' = todos \cup {r}
          /\ r.status = "active"
          /\ r.id \notin IdsOf(todos)
          /\ r.id \notin assigned
    /\ \A r, q \in todos' : r.id = q.id => r = q

\* C4 as claimed: for every non-empty text.
C4_CreateAddsFreshRow ==
    [][\A t \in BodyTexts :
          (t.n > 0 /\ Post(TaskOnly(t))) => AddsOneFreshActiveRow]_vars

\* C4 as amended: for every non-empty text that fits the column
\* (at most VarcharLen characters).
C4_CreateWithinLengthAddsFreshRow ==
    [][\A t \in BodyTexts :
          (t.n > 0 /\ t.n <= VarcharLen /\ Post(TaskOnly(t)))
              => AddsOneFreshActiveRow]_vars

\* A create has succeeded after an earlier row was deleted, next to a row
\* that is still there.
C4_Witness ==
    /\ req.op = "POST"
    /\ res.code = 200
    /\ deletes > 0
    /\ Cardinality(todos) > 1

(***************************************************************************)
(* C5: an update that supplies only the text leaves status, created_at and *)
(* id of the addressed row unchanged, an update that supplies only the     *)
(* status leaves its text, created_at and id unchanged, and either leaves  *)
(* every other row unchanged.                                              *)
(***************************************************************************)
\* The step keeps every row but the one with the id, and keeps of that one
\* the id, the created_at and the column named `kept`.
KeepsAllBut(id, kept) ==
    /\ IdsOf(todos') = IdsOf(todos)
    /\ \A r \in todos :
          IF r.id = id
          THEN \E q \in todos' :
                  /\ q.id = r.id
                  /\ q.created_at = r.created_at
                  /\ (kept = "status" => q.status = r.status)
                  /\ (kept = "task" => q.task = r.task)
          ELSE r \in todos'

C5_PartialUpdateFrame ==
    [][/\ (req'.op = "PUT" /\ req'.fields = <<"task">>)
            => KeepsAllBut(req'.id, "status")
       /\ (req'.op = "PUT" /\ req'.fields = <<"status">>)
            => KeepsAllBut(req'.id, "task")]_vars

\* A text-only update has changed the text of a completed row while another
\* row exists.
C5_Witness ==
    /\ req.op = "PUT"
    /\ req.fields = <<"task">>
    /\ res.code = 200
    /\ res.changes = 1
    /\ Cardinality(todos) > 1
    /\ \E r \in todos : r.id = req.id /\ r.status = "completed"

(***************************************************************************)
(* C6: an update with at least one field is answered with success and a    *)
(* changes count of 1 whenever a row has the id, whatever its values, and  *)
(* of 0 when no row has it.                                                *)
(***************************************************************************)
\* The bodies of the interface: a text that fits the column, a status of the
\* enumeration, at least one of them.
ApiBodies ==
    {b \in Bodies :
        /\ Len(Fields(b)) > 0
        /\ b.task.kind \in {"undefined", "string"}
        /\ b.task.v.n <= VarcharLen
        /\ b.status.kind = "string" => b.status.v \in StatusEnum
        /\ b.status.kind # "null"}

C6_ChangesCountsMatchedRows ==
    [][\A id \in Ids, b \in ApiBodies :
          Put(id, b) =>
            /\ res'.code = 200
            /\ res'.message = "success"
            /\ res'.changes = (IF HasRow(todos, id) THEN 1 ELSE 0)]_vars

(***************************************************************************)
(* C7: a delete of an id no row has answers "deleted" with changes = 0 and  *)
(* leaves the table unchanged; a delete of an existing id removes exactly  *)
(* that row and answers changes = 1.                                       *)
(***************************************************************************)
C7_DeleteRemovesExactlyTheRow ==
    [][req'.op = "DELETE" =>
          /\ res'.code = 200
          /\ res'.message = "deleted"
          /\ IF HasRow(todos, req'.id)
             THEN /\ res'.changes = 1
                  /\ todos' = todos \ {RowOf(todos, req'.id)}
             ELSE /\ res'.changes = 0
                  /\ todos' = todos]_vars

\* An id was deleted a second time, with zero changes, next to rows that
\* are still there.
C7_Witness ==
    /\ req.op = "DELETE"
    /\ res.message = "deleted"
    /\ res.changes = 0
    /\ deletes > 0
    /\ todos # {}

(***************************************************************************)
(* C8: from an empty table, after N successful creates and M deletes of    *)
(* existing rows, a list request returns exactly N - M tasks: each row of  *)
(* the table once.                                                         *)
(***************************************************************************)
C8_ListReturnsEveryRowOnce ==
    (req.op = "GET" /\ res.code = 200) =>
        /\ Len(res.data) = creates - deletes
        /\ {res.data[i] : i \in 1..Len(res.data)} = todos
        /\ \A i, j \in 1..Len(res.data) : i # j => res.data[i] # res.data[j]

\* A list after two creates and one delete returns the one row left.
C8_Witness ==
    /\ req.op = "GET"
    /\ creates = 2
    /\ deletes = 1
    /\ Len(res.data) = 1

(***************************************************************************)
(* C9: a list request returns the tasks newest first.                      *)
(***************************************************************************)
\* C9 as claimed: of any two tasks listed, the one created later (the one
\* with the larger id) comes first, equal created_at included.
C9_ListNewestFirst ==
    (req.op = "GET" /\ res.code = 200) =>
        \A i, j \in 1..Len(res.data) : i < j => res.data[i].id > res.data[j].id

\* C9 as amended: of any two tasks listed whose created_at differ, the one
\* created later comes first.
C9_ListNewestFirstByTimestamp ==
    (req.op = "GET" /\ res.code = 200) =>
        \A i, j \in 1..Len(res.data) :
            (i < j /\ res.data[i].created_at # res.data[j].created_at)
                => res.data[i].id > res.data[j].id

\* A list of three tasks, two of them created in the same second.
C9_Witness ==
    /\ req.op = "GET"
    /\ Len(res.data) = 3
    /\ res.data[1].created_at # res.data[3].created_at
    /\ res.data[1].created_at = res.data[2].created_at

C11_EmptyUpdateRejected ==
    [][(req'.op = "PUT" /\ req'.fields = <<>>) =>
          /\ res'.code = 400
          /\ res'.message = "No fields to update"
          /\ query' = "none"
          /\ todos' = todos]_vars

\* An update without fields was refused for an id that a row has.
C11_Witness ==
    /\ req.op = "PUT"
    /\ req.fields = <<>>
    /\ res.code = 400
    /\ query = "none"
    /\ HasRow(todos, req.id)

(***************************************************************************)
(* C12: a failure of the initial connection is logged and is fatal: once   *)
(* it has failed, the server handles no /todos request any more.           *)
(***************************************************************************)
C12_ConnectFailureIsFatal ==
    [][conn = "failed" =>
          /\ "Error connecting to MySQL server" \in log
          /\ handled' = handled]_vars

(***************************************************************************)
(* C20: no statement of a request handler is run by the store before       *)
(* storage initialization has completed.                                   *)
(***************************************************************************)
C20_QueriesRunAfterInit ==
    [][(conn = "connected" /\ handled' # handled /\ query' # "none") => dbReady]_vars

(***************************************************************************)
(* C13: the page sends a DELETE for an id only in a click on confirm while *)
(* the delete modal is open for that id; the modal is open for an id only  *)
(* through a click on the delete button of that id's row, the latest one;  *)
(* opening the modal, cancel and a click outside its box send nothing.     *)
(***************************************************************************)
C13_DeleteOnlyAfterConfirm ==
    [][/\ \A m \in inflight' \ inflight :
            m.kind = "delete" =>
                (ClickConfirm /\ modalOpen /\ todoIdToDelete = m.id)
       /\ ((\E k \in Ids : ClickDelete(k)) \/ ClickCancel \/ ClickOutside) =>
            inflight' = inflight
       /\ \A k \in Ids :
            ClickDelete(k) => (modalOpen' /\ todoIdToDelete' = rendered[k].id)
       /\ (todoIdToDelete' # todoIdToDelete /\ todoIdToDelete' # 0) =>
            \E k \in Ids : ClickDelete(k)]_vars

C13_Witness ==
    \E m \in inflight :
        /\ m.kind = "delete"
        /\ modalOpen
        /\ todoIdToDelete = m.id
        /\ \E i \in DOMAIN rendered : rendered[i].id = m.id

(***************************************************************************)
(* C14: Enter or loss of focus in an edit input whose value is empty or    *)
(* whitespace only sends the list request and nothing else, and leaves the *)
(* table alone; no update request ever carries a blank text.               *)
(***************************************************************************)
C14_BlankCommitRefetches ==
    [][/\ (edit.focus /\ IsBlank(edit.value) /\ (PressEnter \/ Blur)) =>
            /\ inflight' \ inflight = {FetchTodos(nextReq)}
            /\ todos' = todos
       /\ \A m \in inflight' \ inflight : m.kind = "text" => ~IsBlank(m.text)]_vars

C14_Witness ==
    /\ edit.focus
    /\ ~edit.escaped
    /\ edit.value = Text(" ", 1)
    /\ nextReq = 2
    /\ FetchTodos(1) \in inflight
    /\ \E r \in todos : r.id = edit.id /\ r.task = Text("a", 1)

(***************************************************************************)
(* C15: the page loads with a list request; when the response to one of    *)
(* its create, update or delete requests arrives it sends a list request;  *)
(* and the rendered list changes only by being replaced with the data of a *)
(* list response.                                                          *)
(***************************************************************************)
Mutations == {"create", "status", "text", "delete"}

ViewOnlyReplaced ==
    rendered' # rendered =>
        \E p \in replies : p.kind = "list" /\ Deliver(p) /\ rendered' = p.data

C15_RefetchAfterEveryAnswer ==
    /\ inflight = {FetchTodos(0)}
    /\ [][/\ \A p \in replies :
               (p.kind \in Mutations /\ Deliver(p)) =>
                   FetchTodos(nextReq) \in inflight'
          /\ ViewOnlyReplaced]_vars

\* C15 as it holds: the same for a create request answered with success and
\* for an update or delete request answered at all.
C15_RefetchAfterEverySuccess ==
    /\ inflight = {FetchTodos(0)}
    /\ [][/\ \A p \in replies :
               (p.kind \in Mutations /\ (p.kind = "create" => p.ok) /\ Deliver(p)) =>
                   FetchTodos(nextReq) \in inflight'
          /\ ViewOnlyReplaced]_vars

C15_Witness ==
    /\ handled = 2
    /\ req.op = "PUT"
    /\ res.code = 200
    /\ replies = {}
    /\ nextReq = 3
    /\ inflight = {FetchTodos(2)}

(***************************************************************************)
(* C16: of two updates of one row that are under way together, each        *)
(* succeeds, sets its field to its value whenever it is executed, so the   *)
(* one executed last decides a field both set, and leaves the other field  *)
(* as it finds it, so the values of updates of different fields both stay. *)
(***************************************************************************)
C16_LastWriteWins ==
    [][\A m \in inflight :
          Answer(m) =>
              LET old == RowOf(todos, m.id)
                  new == RowOf(todos', m.id)
              IN  /\ res'.code = 200
                  /\ m.kind = "text" => (new.task = m.text /\ new.status = old.status)
                  /\ m.kind = "status" => (new.status = m.status /\ new.task = old.task)]_vars

C16_Witness ==
    /\ inflight = {}
    /\ {p.kind : p \in replies} = {"text", "status"}
    /\ \A p \in replies : p.ok
    /\ \E r \in todos : r.id = 1 /\ r.task = Text("c", 1) /\ r.status = "completed"

(***************************************************************************)
(* C17: every status update that toggleStatus sends for an existing task   *)
(* switches the stored status of the task to the other of the two values.  *)
(***************************************************************************)
C17_ToggleSwitchesStatus ==
    [][\A m \in inflight :
          (m.kind = "status" /\ HasRow(todos, m.id) /\ Answer(m)) =>
              /\ RowOf(todos', m.id).status \in StatusEnum
              /\ RowOf(todos', m.id).status # RowOf(todos, m.id).status]_vars

(***************************************************************************)
(* C18: from Escape in an edit input until the list is rendered anew, the  *)
(* page sends no update carrying the input's value for that task, and the  *)
(* stored text of the task stays as it is.                                 *)
(***************************************************************************)
C18_EscapeCancels ==
    [][edit.escaped =>
          /\ \A m \in inflight' \ inflight :
               ~(m.kind = "text" /\ m.id = edit.id /\ m.text = edit.value)
          /\ (HasRow(todos, edit.id) /\ HasRow(todos', edit.id)) =>
               RowOf(todos', edit.id).task = RowOf(todos, edit.id).task]_vars

(***************************************************************************)
(* C19: one page, no other writer: when every request of the page has been *)
(* answered and every response has arrived, the rendered list holds        *)
(* exactly the rows of the table.                                          *)
(***************************************************************************)
C19_SettledViewEqualsTable ==
    (inflight = {} /\ replies = {}) =>
        /\ {rendered[i] : i \in DOMAIN rendered} = todos
        /\ Len(rendered) = Cardinality(todos)

====
